---- MODULE Spec2Model ----
(***************************************************************************)
(* autochektools.bigquery.BigQuery: the chunked fetch generator, the       *)
(* check-then-create / load-job path, schema inference from a sample row   *)
(* and the JSON insert helpers, each as a state machine over the remote    *)
(* services they talk to.                                                  *)
(***************************************************************************)
EXTENDS Integers, Sequences, FiniteSets, TLC

\* ------------------------------------------------------------------ bounds
MaxRows == 5
MaxChunk == 3
MaxStops == 2
MaxWrites == 2
MaxCalls == 2
MaxFaults == 2
MaxOtherCreates == 1
MaxReloads == 3
MaxFields == 3
MaxInsertRows == 2
MaxErrors == 2
MaxOps == 2
MaxNameLen == 2
MaxFiles == 3
MaxMailCalls == 2
MaxNotes == 2

VARIABLES
    \* fetch_data_in_chunks: the remote source and the generator's frame
    source, chunk_size, offset, more_data, gen, queries, delivered, lastPull, stops,
    \* the other writers of the source: how often they wrote, and the rows
    \* that have been in the source all along
    writes, stable,
    \* load_data_bigquery: the remote table and load jobs, the caller's
    \* position, its job handle and the record of each call
    tableExists, remoteJobs, lpc, job, calls, faults, otherCreates,
    \* create_bigqueryschema: the sample row and what the call gave
    item, inferred, result,
    \* insert_json / insert_rows: the remote insert API's call log and the
    \* record of each operation
    apiCalls, ops,
    \* upload_to_gcs: the arguments, the objects in the bucket and what the
    \* call gave
    bucket_name, destination_blob_name, folder_in_bucket, uploaded, upload,
    \* send_mail_with_gcs_attachments: the record of each call and the
    \* messages handed to the SMTP server
    mails, smtp,
    \* send_to_slack: the record of each call and the chat_postMessage calls
    \* the Slack client received
    notes, posted

fetchVars ==
    <<source, chunk_size, offset, more_data, gen, queries, delivered, lastPull, stops,
      writes, stable>>

loadVars == <<tableExists, remoteJobs, lpc, job, calls, faults, otherCreates>>

schemaVars == <<item, inferred, result>>

insertVars == <<apiCalls, ops>>

uploadVars == <<bucket_name, destination_blob_name, folder_in_bucket, uploaded, upload>>

mailVars == <<mails, smtp>>

slackVars == <<notes, posted>>

vars == <<fetchVars, loadVars, schemaVars, insertVars, uploadVars, mailVars, slackVars>>

notFetch == <<loadVars, schemaVars, insertVars, uploadVars, mailVars, slackVars>>

notLoad == <<fetchVars, schemaVars, insertVars, uploadVars, mailVars, slackVars>>

notSchema == <<fetchVars, loadVars, insertVars, uploadVars, mailVars, slackVars>>

notInsert == <<fetchVars, loadVars, schemaVars, uploadVars, mailVars, slackVars>>

notUpload == <<fetchVars, loadVars, schemaVars, insertVars, mailVars, slackVars>>

notMail == <<fetchVars, loadVars, schemaVars, insertVars, uploadVars, slackVars>>

notSlack == <<fetchVars, loadVars, schemaVars, insertVars, uploadVars, mailVars>>

Min(a, b) == IF a <= b THEN a ELSE b

\* The state of the load path before any call.
LoadIdle ==
    /\ remoteJobs = <<>>
    /\ lpc = "idle"
    /\ job = [id |-> 0, state |-> "none"]
    /\ calls = <<>>
    /\ faults = 0
    /\ otherCreates = 0

SchemaIdle ==
    /\ item = <<>>
    /\ inferred = FALSE
    /\ result = [raised |-> FALSE, schema |-> {}]

InsertIdle ==
    /\ apiCalls = <<>>
    /\ ops = <<>>

NoUpload == [state |-> "none", object |-> <<>>, url |-> <<>>]

UploadIdle ==
    /\ bucket_name = <<>>
    /\ destination_blob_name = <<>>
    /\ folder_in_bucket = <<>>
    /\ uploaded = {}
    /\ upload = NoUpload

MailIdle ==
    /\ mails = <<>>
    /\ smtp = <<>>

SlackIdle ==
    /\ notes = <<>>
    /\ posted = <<>>

FetchIdle ==
    /\ source = <<>>
    /\ chunk_size = 1
    /\ offset = 0
    /\ more_data = TRUE
    /\ gen = "created"
    /\ queries = <<>>
    /\ delivered = <<>>
    /\ lastPull = "none"
    /\ stops = 0
    /\ writes = 0
    /\ stable = {}

\* =====================================================================
\* fetch_data_in_chunks (bigquery.py 220-246)
\* =====================================================================

\* The query, had OFFSET skipped one row more than asked.
QueryOneTooFar(src, limit, off) == SubSeq(src, off + 2, Min(off + limit + 1, Len(src)))

\* The rows "<query> LIMIT limit OFFSET off" returns over a source whose
\* row order is stable.
Query(src, limit, off) == SubSeq(src, off + 1, Min(off + limit, Len(src)))

\* df.empty, had the loop stopped at the first short frame instead.
ShortFrame(df) == Len(df) < chunk_size

\* df.empty
Empty(df) == Len(df) = 0

\* offset += 1: the offset advanced by a row, not by a chunk.
AdvanceOffsetByRow(off, c) == off + 1

\* offset += 2 * chunk_size: a chunk is skipped at every step.
AdvanceOffsetSkipping(off, c) == off + 2 * c

\* The except clause, had it logged the error and gone on with the loop.
SwallowQueryError == "suspended"

\* offset += chunk_size
AdvanceOffset(off, c) == off + c

\* The generator's state after the except clause re-raises.
AfterQueryError == "raised"

\* One entry of the query log: the parameters bound to the statement, the
\* number of batches yielded when it ran and the number of rows it returned
\* (-1: the execution failed).
QueryRecord(limit, off, rows) ==
    [limit |-> limit, offset |-> off, yielded |-> Len(delivered), rows |-> rows]

\* One pass of the while loop with the offset off: bind the parameters, run
\* the query, then close on an empty frame or suspend at the yield.
LoopPass(off, fails) ==
    /\ offset' = off
    /\ IF fails
       THEN /\ queries' = Append(queries, QueryRecord(chunk_size, off, -1))
            /\ gen' = AfterQueryError
            /\ lastPull' = "error"
            /\ UNCHANGED <<more_data, delivered>>
       ELSE LET df == Query(source, chunk_size, off) IN
            /\ queries' = Append(queries, QueryRecord(chunk_size, off, Len(df)))
            /\ IF Empty(df)
               THEN /\ more_data' = FALSE
                    /\ gen' = "done"
                    /\ lastPull' = "stop"
                    /\ UNCHANGED delivered
               ELSE /\ delivered' = Append(delivered, df)
                    /\ gen' = "suspended"
                    /\ lastPull' = "batch"
                    /\ UNCHANGED more_data

\* next(generator): run the body from where it stands to the next yield, to
\* its end or to the exception.  A finished generator raises StopIteration.
Pull ==
    /\ \E fails \in BOOLEAN :
         CASE gen = "created" -> LoopPass(0, fails) /\ UNCHANGED stops
           [] gen = "suspended" ->
                LoopPass(AdvanceOffset(offset, chunk_size), fails) /\ UNCHANGED stops
           [] OTHER ->
                /\ stops < MaxStops
                /\ stops' = stops + 1
                /\ lastPull' = "stop"
                /\ UNCHANGED <<offset, more_data, gen, queries, delivered>>
    /\ UNCHANGED <<source, chunk_size, writes, stable>>
    /\ UNCHANGED notFetch

InitFetch ==
    /\ \E n \in 0..MaxRows : source = [i \in 1..n |-> i]
    /\ chunk_size \in 1..MaxChunk
    /\ offset = 0
    /\ more_data = TRUE
    /\ gen = "created"
    /\ queries = <<>>
    /\ delivered = <<>>
    /\ lastPull = "none"
    /\ stops = 0
    /\ writes = 0
    /\ stable = {source[i] : i \in 1..Len(source)}
    /\ tableExists = FALSE
    /\ LoadIdle
    /\ SchemaIdle
    /\ InsertIdle
    /\ UploadIdle
    /\ MailIdle
    /\ SlackIdle

NextFetch == Pull

SpecFetch == InitFetch /\ [][NextFetch]_vars

\* Another writer inserts a row into the source while the generator is
\* suspended between two pulls; each query reads the source as it then is.
WriterInsert ==
    /\ gen = "suspended"
    /\ writes < MaxWrites
    /\ \E pos \in 0..Len(source) :
         source' = SubSeq(source, 1, pos) \o <<MaxRows + writes + 1>>
                     \o SubSeq(source, pos + 1, Len(source))
    /\ writes' = writes + 1
    /\ UNCHANGED <<chunk_size, offset, more_data, gen, queries, delivered, lastPull, stops,
                   stable>>
    /\ UNCHANGED notFetch

\* Another writer deletes a row of the source between two pulls.
WriterDelete ==
    /\ gen = "suspended"
    /\ writes < MaxWrites
    /\ \E pos \in 1..Len(source) :
         /\ source' = SubSeq(source, 1, pos - 1) \o SubSeq(source, pos + 1, Len(source))
         /\ stable' = stable \ {source[pos]}
    /\ writes' = writes + 1
    /\ UNCHANGED <<chunk_size, offset, more_data, gen, queries, delivered, lastPull, stops>>
    /\ UNCHANGED notFetch

NextFetchWriter ==
    \/ Pull
    \/ WriterInsert
    \/ WriterDelete

SpecFetchWriter == InitFetch /\ [][NextFetchWriter]_vars

\* ---------------------------------------------------------------------
\* Properties of fetch_data_in_chunks
\* ---------------------------------------------------------------------

CeilDiv(n, c) == (n + c - 1) \div c

BatchSizes == [i \in 1..Len(delivered) |-> Len(delivered[i])]

Last(s) == s[Len(s)]

\* C1: once the generator has closed over an unchanged source of n rows
\* with chunk size c, the consumer holds exactly ceil(n/c) batches, each of
\* c rows but a possibly smaller last one of n mod c rows; no batch it ever
\* receives is empty, and an empty source gives no batch.
C1_BatchSizes ==
    /\ \A i \in 1..Len(delivered) : Len(delivered[i]) >= 1
    /\ gen = "done" =>
         LET n == Len(source)
             c == chunk_size
             k == Len(delivered)
         IN  /\ k = CeilDiv(n, c)
             /\ n = 0 => k = 0
             /\ \A i \in 1..k :
                  Len(delivered[i]) = IF i < k \/ n % c = 0 THEN c ELSE n % c

C1_Witness ==
    /\ gen = "done"
    /\ Len(source) = 5
    /\ chunk_size = 2
    /\ BatchSizes = <<2, 2, 1>>

\* C2 as stated: a closed generator has executed exactly as many queries
\* as it has yielded batches (3 for 5 rows in chunks of 2, never a 4th).
C2_OneQueryPerBatch == gen = "done" => Len(queries) = Len(delivered)

\* C2 amended: every query but the last one executed produced one batch;
\* a suspended generator has run as many queries as it yielded batches,
\* and a finished one has run one more: the query that came back empty
\* (or the one that failed).
C2_QueriesAreBatchesPlusClosing ==
    /\ \A k \in 1..(Len(queries) - 1) : queries[k].rows >= 1
    /\ gen = "created" => Len(queries) = 0
    /\ gen = "suspended" => Len(queries) = Len(delivered) /\ Last(queries).rows >= 1
    /\ gen = "done" => Len(queries) = Len(delivered) + 1 /\ Last(queries).rows = 0
    /\ gen = "raised" => Len(queries) = Len(delivered) + 1 /\ Last(queries).rows = -1

C2_Witness ==
    /\ gen = "done"
    /\ Len(source) = 5
    /\ chunk_size = 2
    /\ Len(delivered) = 3
    /\ Len(queries) = 4
    /\ queries[4].offset = 6

\* C3: the k-th executed query carries limit = chunk_size and
\* offset = (k-1) * chunk_size, which is chunk_size times the number of
\* batches yielded when it runs; the generator closes at the first query
\* that returns an empty frame and not before, and a closed generator runs
\* no query and yields no batch on later pulls.
C3_QueryParameters ==
    /\ \A k \in 1..Len(queries) :
         /\ queries[k].limit = chunk_size
         /\ queries[k].offset = (k - 1) * chunk_size
         /\ queries[k].offset = chunk_size * queries[k].yielded
    /\ Len(queries) = 0 => offset = 0
    /\ Len(queries) >= 1 => offset = Last(queries).offset
    /\ \A k \in 1..Len(queries) : queries[k].rows = 0 => k = Len(queries)
    /\ gen = "done" <=> (Len(queries) >= 1 /\ Last(queries).rows = 0)
    /\ gen = "done" <=> ~more_data

C3_ClosedStaysClosed ==
    gen = "done" => gen' = "done" /\ queries' = queries /\ delivered' = delivered

C3_OffsetAndClose == [][C3_ClosedStaysClosed]_vars /\ []C3_QueryParameters

C3_Witness ==
    /\ gen = "done"
    /\ Len(queries) >= 3
    /\ stops >= 1
    /\ lastPull = "stop"

\* C4: a failed query execution reaches the consumer as an error on that
\* pull and ends the generator: the failed query is the last one in the
\* log (no retry, no later query), later pulls yield nothing, and the
\* batches yielded before the failure are still with the consumer.
C4_FailureState ==
    /\ \A k \in 1..Len(queries) : queries[k].rows = -1 => k = Len(queries)
    /\ gen = "raised" <=> (Len(queries) >= 1 /\ Last(queries).rows = -1)
    /\ gen = "raised" => Len(delivered) = Last(queries).yielded
    /\ lastPull = "error" => gen = "raised"

C4_FailureStep ==
    /\ (gen # "raised" /\ gen' = "raised") => lastPull' = "error" /\ delivered' = delivered
    /\ gen = "raised" =>
         gen' = "raised" /\ queries' = queries /\ delivered' = delivered /\ lastPull' = "stop"
    /\ SubSeq(delivered', 1, Len(delivered)) = delivered

C4_ErrorAborts == [][C4_FailureStep]_vars /\ []C4_FailureState

C4_Witness ==
    /\ gen = "raised"
    /\ Len(delivered) >= 2
    /\ Len(queries) = 3
    /\ stops >= 1

\* The batches that hold the row r.
BatchesWith(r) ==
    {i \in 1..Len(delivered) : \E k \in 1..Len(delivered[i]) : delivered[i][k] = r}

\* r has been in the source all along and the closed generator never
\* yielded it.
Missed(r) == gen = "done" /\ r \in stable /\ BatchesWith(r) = {}

\* r has been in the source all along and was yielded in two batches.
Duplicated(r) == r \in stable /\ Cardinality(BatchesWith(r)) >= 2

\* C16: the fetch has no snapshot of the source.  As long as no other
\* writer has written between the pulls no row is yielded twice and a
\* closed generator has yielded every row of the source exactly once; with
\* writes between the pulls there are executions that miss a row that was
\* in the source all along and executions that yield such a row twice
\* (the witness).
C16_AnomaliesNeedWriter ==
    writes = 0 =>
        /\ \A r \in stable : Cardinality(BatchesWith(r)) <= 1
        /\ gen = "done" => \A r \in stable : Cardinality(BatchesWith(r)) = 1

C16_Witness ==
    /\ gen = "done"
    /\ writes >= 1
    /\ \E r \in stable : Missed(r)
    /\ \E r \in stable : Duplicated(r)

\* =====================================================================
\* check_table, create_table, load_data_bigquery (bigquery.py 65-81, 169-190)
\* =====================================================================

\* A remote call may fail in transport; the model injects at most
\* MaxFaults such failures.
Faulty(fault) == fault => faults < MaxFaults

CountFault(fault) == faults' = IF fault THEN faults + 1 ELSE faults

\* check_table, had its two return statements been swapped.
check_table_swapped(exists, fault) == ~(exists /\ ~fault)

\* check_table: True when get_table answers, False on any exception (the
\* table is not there, or the lookup itself failed).
check_table(exists, fault) == exists /\ ~fault

\* check_table, had its except clause caught the not-found error alone.
CheckTableRaisesOnTransport(exists, fault) == fault

\* except Exception: whatever get_table raises is caught, so check_table
\* raises nothing.
CheckTableRaises(exists, fault) == FALSE

\* client.create_table: "created", or the exception it raises: Conflict
\* when the table is there, a transport error when the call fails.
create_table(exists, fault) ==
    IF exists THEN "Conflict" ELSE IF fault THEN "TransportError" ELSE "created"

\* The poll loop's exit test, had it compared with the first state instead.
LoopExitsOnProgress(state) == state # "SUBMITTED"

\* The poll loop's exit test, had it spelled the state differently.
LoopExitsOnOtherSpelling(state) == state = "Done"

\* while job.state != "DONE": the loop is left when this holds.
LoopExits(state) == state = "DONE"

NewCall ==
    [checked |-> FALSE, there |-> FALSE, lookupFault |-> FALSE, exists |-> FALSE, creates |-> 0, created |-> FALSE, raced |-> FALSE,
     jobs |-> 0, seen |-> {}, reloads |-> 0, outcome |-> "running", error |-> "none"]

Cur == calls[Len(calls)]

SetCur(r) == calls' = [calls EXCEPT ![Len(calls)] = r]

Raise(r, err) ==
    /\ SetCur([r EXCEPT !.outcome = "raised", !.error = err])
    /\ lpc' = "raised"

\* load_data_bigquery is entered: the rows are serialised into the buffer
\* (lines 170-172).
LoadCall ==
    /\ lpc \in {"idle", "returned", "raised"}
    /\ Len(calls) < MaxCalls
    /\ calls' = Append(calls, NewCall)
    /\ job' = [id |-> 0, state |-> "none"]
    /\ lpc' = "check"
    /\ UNCHANGED <<tableExists, remoteJobs, faults, otherCreates>>
    /\ UNCHANGED notLoad

\* if not self.check_table(...)  (line 173)
CheckTable ==
    /\ lpc = "check"
    /\ \E fault \in BOOLEAN :
         /\ Faulty(fault)
         /\ CountFault(fault)
         /\ LET found == check_table(tableExists, fault)
                r == [Cur EXCEPT !.checked = TRUE, !.there = tableExists,
                                 !.lookupFault = fault]
            IN IF CheckTableRaises(tableExists, fault)
               THEN Raise(r, "TransportError")
               ELSE /\ SetCur([r EXCEPT !.exists = found])
                    /\ lpc' = IF found THEN "submit" ELSE "create"
    /\ UNCHANGED <<tableExists, remoteJobs, job, otherCreates>>
    /\ UNCHANGED notLoad

\* self.create_table(...)  (lines 174-176): nothing catches what it raises.
CreateTable ==
    /\ lpc = "create"
    /\ \E fault \in BOOLEAN :
         /\ Faulty(fault)
         /\ CountFault(fault)
         /\ LET res == create_table(tableExists, fault)
                r == [Cur EXCEPT !.creates = @ + 1]
            IN IF res = "created"
               THEN /\ tableExists' = TRUE
                    /\ SetCur([r EXCEPT !.created = TRUE])
                    /\ lpc' = "submit"
               ELSE /\ Raise(r, res)
                    /\ UNCHANGED tableExists
    /\ UNCHANGED <<remoteJobs, job, otherCreates>>
    /\ UNCHANGED notLoad

\* job = self.client.load_table_from_file(...)  (lines 178-185)
SubmitLoad ==
    /\ lpc = "submit"
    /\ \E fault \in BOOLEAN :
         /\ Faulty(fault)
         /\ CountFault(fault)
         /\ IF fault
            THEN /\ Raise(Cur, "TransportError")
                 /\ UNCHANGED <<remoteJobs, job>>
            ELSE /\ remoteJobs' = Append(remoteJobs, "SUBMITTED")
                 /\ job' = [id |-> Len(remoteJobs) + 1, state |-> "SUBMITTED"]
                 /\ SetCur([Cur EXCEPT !.jobs = @ + 1, !.seen = @ \cup {"SUBMITTED"}])
                 /\ lpc' = "poll"
    /\ UNCHANGED <<tableExists, otherCreates>>
    /\ UNCHANGED notLoad

\* The reloads of a call are counted up to MaxReloads; the loop itself
\* counts nothing and goes on.
CountReload(n) == Min(n + 1, MaxReloads)

\* One turn of the poll loop: job.reload(); time.sleep(2)  (lines 186-189)
Reload ==
    /\ lpc = "poll"
    /\ ~LoopExits(job.state)
    /\ \E fault \in BOOLEAN :
         /\ Faulty(fault)
         /\ CountFault(fault)
         /\ IF fault
            THEN /\ Raise([Cur EXCEPT !.reloads = CountReload(@)], "TransportError")
                 /\ UNCHANGED job
            ELSE /\ job' = [job EXCEPT !.state = remoteJobs[job.id]]
                 /\ SetCur([Cur EXCEPT !.seen = @ \cup {remoteJobs[job.id]},
                                       !.reloads = CountReload(@)])
                 /\ UNCHANGED lpc
    /\ UNCHANGED <<tableExists, remoteJobs, otherCreates>>
    /\ UNCHANGED notLoad

\* The loop is left and print(job.result()) ends the call  (lines 186, 190);
\* result() raises when the finished job carries an error.
Finish ==
    /\ lpc = "poll"
    /\ LoopExits(job.state)
    /\ \E fault \in BOOLEAN :
         /\ Faulty(fault)
         /\ CountFault(fault)
         /\ IF fault
            THEN Raise(Cur, "JobError")
            ELSE /\ SetCur([Cur EXCEPT !.outcome = "returned"])
                 /\ lpc' = "returned"
    /\ UNCHANGED <<tableExists, remoteJobs, job, otherCreates>>
    /\ UNCHANGED notLoad

\* The remote service moves a load job on: SUBMITTED -> RUNNING* -> DONE.
JobAdvance ==
    /\ \E j \in 1..Len(remoteJobs) :
         \/ /\ remoteJobs[j] = "SUBMITTED"
            /\ \E s \in {"RUNNING", "DONE"} : remoteJobs' = [remoteJobs EXCEPT ![j] = s]
         \/ /\ remoteJobs[j] = "RUNNING"
            /\ remoteJobs' = [remoteJobs EXCEPT ![j] = "DONE"]
    /\ UNCHANGED <<tableExists, lpc, job, calls, faults, otherCreates>>
    /\ UNCHANGED notLoad

\* Another client of the same project creates the table.
OtherCreate ==
    /\ ~tableExists
    /\ otherCreates < MaxOtherCreates
    /\ tableExists' = TRUE
    /\ otherCreates' = otherCreates + 1
    /\ calls' = IF lpc = "create" THEN [calls EXCEPT ![Len(calls)].raced = TRUE] ELSE calls
    /\ UNCHANGED <<remoteJobs, lpc, job, faults>>
    /\ UNCHANGED notLoad

InitLoad ==
    /\ tableExists \in BOOLEAN
    /\ LoadIdle
    /\ FetchIdle
    /\ SchemaIdle
    /\ InsertIdle
    /\ UploadIdle
    /\ MailIdle
    /\ SlackIdle

NextLoad ==
    \/ LoadCall
    \/ CheckTable
    \/ CreateTable
    \/ SubmitLoad
    \/ Reload
    \/ Finish
    \/ JobAdvance
    \/ OtherCreate

SpecLoad == InitLoad /\ [][NextLoad]_vars

\* The caller is a running thread: a turn of the poll loop that can be
\* taken is taken, and so is the exit from the loop.  Nothing obliges the
\* remote service to finish a job.
SpecLoadFair == SpecLoad /\ WF_vars(Reload) /\ WF_vars(Finish)

\* ---------------------------------------------------------------------
\* Properties of the check-then-create step and of load_data_bigquery
\* ---------------------------------------------------------------------

\* The check-then-create step of call i has run to its end.
StepDone(i) == calls[i].checked /\ (calls[i].exists \/ calls[i].creates >= 1)

\* C5: when the check-then-create step has run twice in sequence on a
\* table that was absent at first, with every remote call answered and no
\* other creator in between, the first run made the one create call that
\* created the table, and the second run saw the table and made no create
\* call.
C5_CreatedOnce ==
    (/\ Len(calls) = 2
     /\ StepDone(1) /\ StepDone(2)
     /\ calls[1].exists = FALSE
     /\ faults = 0
     /\ otherCreates = 0)
    => /\ calls[1].creates = 1
       /\ calls[1].created
       /\ calls[2].exists = TRUE
       /\ calls[2].creates = 0
       /\ lpc # "create"
       /\ tableExists

C5_Witness ==
    /\ Len(calls) = 2
    /\ faults = 0
    /\ otherCreates = 0
    /\ calls[1].created
    /\ calls[1].outcome = "returned"
    /\ calls[2].exists = TRUE
    /\ calls[2].outcome = "returned"

\* C6 as stated: a call whose create_table met a table that another
\* creator made after check_table returned False does not fail on the
\* table-already-exists error; it goes on to submit its load.
C6_RaceIsSuccess ==
    \A i \in 1..Len(calls) :
        (calls[i].raced /\ calls[i].creates >= 1) =>
            ~(calls[i].outcome = "raised" /\ calls[i].error = "Conflict")

\* C7: in every call the existence check, and the creation when the table
\* was reported absent, are over before the load job is submitted; a call
\* submits at most one job and a call that returned submitted exactly one
\* and saw it DONE; a job only moves SUBMITTED -> RUNNING -> DONE or
\* SUBMITTED -> DONE, never by a step of the call; the call's view of the
\* job changes only by a reload in the poll loop.
C7_CallOrder ==
    \A i \in 1..Len(calls) :
        /\ calls[i].jobs <= 1
        /\ calls[i].jobs = 1 =>
             /\ calls[i].checked
             /\ ~calls[i].exists => (calls[i].creates = 1 /\ calls[i].created)
        /\ calls[i].outcome = "returned" =>
             /\ calls[i].jobs = 1
             /\ "DONE" \in calls[i].seen
        /\ (i = Len(calls) /\ lpc = "returned") =>
             /\ job.state = "DONE"
             /\ remoteJobs[job.id] = "DONE"
        /\ (i = Len(calls) /\ lpc \in {"check", "create", "submit"}) => calls[i].jobs = 0

C7_JobStep ==
    /\ Len(remoteJobs') >= Len(remoteJobs)
    /\ Len(remoteJobs') > Len(remoteJobs) =>
         /\ lpc = "submit" /\ lpc' = "poll"
         /\ remoteJobs' = Append(remoteJobs, "SUBMITTED")
    /\ \A j \in 1..Len(remoteJobs) :
         remoteJobs'[j] # remoteJobs[j] =>
            /\ <<remoteJobs[j], remoteJobs'[j]>> \in
                  {<<"SUBMITTED", "RUNNING">>, <<"SUBMITTED", "DONE">>, <<"RUNNING", "DONE">>}
            /\ lpc' = lpc /\ calls' = calls /\ job' = job
    /\ (job'.state # job.state /\ job.state # "none") =>
         (lpc = "poll" \/ (lpc' = "check" /\ job'.state = "none"))

C7_LoadOrder == [][C7_JobStep]_vars /\ []C7_CallOrder

C7_Witness ==
    /\ lpc = "returned"
    /\ ~Cur.exists
    /\ Cur.created
    /\ Cur.jobs = 1
    /\ Cur.seen = {"SUBMITTED", "RUNNING", "DONE"}

\* C17: check_table never raises.  It returns True exactly when the
\* lookup is answered with the table, and False for every lookup failure,
\* a transport failure on a table that exists included; a call whose
\* check_table returned False goes on to call create_table, whether or not
\* the table is there, and one whose check_table returned True does not.
C17_CheckState ==
    \A i \in 1..Len(calls) :
        calls[i].checked =>
            /\ calls[i].exists <=> (calls[i].there /\ ~calls[i].lookupFault)
            /\ calls[i].exists => calls[i].creates = 0
            /\ ~calls[i].exists =>
                 \/ i = Len(calls) /\ lpc = "create" /\ calls[i].creates = 0
                 \/ calls[i].creates = 1
            /\ calls[i].outcome = "raised" =>
                 (calls[i].creates = 1 \/ calls[i].exists)

C17_CheckStep ==
    lpc = "check" =>
        /\ lpc' \in {"check", "create", "submit"}
        /\ lpc' = "create" <=> (lpc' # "check" /\ ~(Cur.there /\ ~Cur.lookupFault)')

C17_CheckNeverRaises == [][C17_CheckStep]_vars /\ []C17_CheckState

C17_Witness ==
    /\ lpc = "raised"
    /\ Cur.there
    /\ Cur.lookupFault
    /\ ~Cur.exists
    /\ Cur.creates = 1
    /\ Cur.error = "Conflict"
    /\ otherCreates = 0

\* The remote state of the job the call is polling.
Polled == remoteJobs[job.id]

\* C15: the poll loop has no timeout and no cancellation.  Once the
\* remote job is DONE the call ends: it returns when no reload and no
\* result() fails any more, and otherwise raises that failure.  The loop is
\* left only with the job seen DONE or by an exception, so a call never
\* returns while its job is not DONE; as long as the job is not DONE and
\* nothing fails the call stays in the loop and reloads again, however many
\* times it has reloaded.
C15_LeavesLoop ==
    (lpc = "poll" /\ lpc' # "poll") =>
        \/ lpc' = "returned" /\ job.state = "DONE" /\ Polled = "DONE"
        \/ lpc' = "raised" /\ faults' = faults + 1

C15_PollLoop ==
    /\ [][C15_LeavesLoop]_vars
    /\ [](lpc = "returned" => Polled = "DONE")
    /\ (lpc = "poll" /\ Polled = "DONE") ~> (lpc \in {"returned", "raised"})
    /\ (lpc = "poll" /\ Polled = "DONE" /\ faults = MaxFaults) ~> (lpc = "returned")
    /\ (lpc = "poll") ~>
          (lpc # "poll" \/ Polled = "DONE" \/ Cur.reloads = MaxReloads)

C15_Witness ==
    /\ Len(calls) = 2
    /\ calls[1].outcome = "returned"
    /\ calls[1].reloads >= 2
    /\ lpc = "poll"
    /\ Polled = "RUNNING"
    /\ Cur.reloads = MaxReloads

\* =====================================================================
\* create_bigqueryschema (bigquery.py 120-133)
\* =====================================================================

Keys == {"id", "name", "price"}

\* The runtime kinds of a field's value.
Kinds == {"str", "dict", "list", "tuple", "int", "bool", "float", "none"}

\* isinstance(v, str) or isinstance(v, dict) or isinstance(v, list) or
\* isinstance(v, tuple)
IsStringKind(kind) == kind \in {"str", "dict", "list", "tuple"}

\* isinstance(v, int): bool is a subclass of int.
IsIntKind(kind) == kind \in {"int", "bool"}

\* query_schema before its first assignment.
Unbound == <<>>

\* The body of the for loop from the i-th key on: query_schema keeps the
\* value of the last field that matched a branch, schema.add reads it, and
\* reading it before any assignment raises UnboundLocalError.
RECURSIVE SchemaLoop(_, _, _, _)
SchemaLoop(row, i, query_schema, schema) ==
    IF i > Len(row)
    THEN [raised |-> FALSE, schema |-> schema]
    ELSE LET f == row[i]
             q == IF IsStringKind(f.kind) THEN <<f.key, "STRING">>
                  ELSE IF IsIntKind(f.kind) THEN <<f.key, "INTEGER">>
                  ELSE query_schema
         IN  IF q = Unbound
             THEN [raised |-> TRUE, schema |-> {}]
             ELSE SchemaLoop(row, i + 1, q, schema \cup {q})

\* create_bigqueryschema(item): the set of (name, type) columns returned,
\* or raised.
create_bigqueryschema(row) == SchemaLoop(row, 1, Unbound, {})

\* The sample rows: mappings in insertion order, keys distinct.
Rows ==
    UNION { { r \in [1..n -> [key : Keys, kind : Kinds]] :
                \A i, j \in 1..n : i # j => r[i].key # r[j].key } :
            n \in 0..Min(MaxFields, Cardinality(Keys)) }

CreateSchema ==
    /\ ~inferred
    /\ inferred' = TRUE
    /\ result' = create_bigqueryschema(item)
    /\ UNCHANGED item
    /\ UNCHANGED notSchema

InitSchema ==
    /\ item \in Rows
    /\ inferred = FALSE
    /\ result = [raised |-> FALSE, schema |-> {}]
    /\ tableExists = FALSE
    /\ LoadIdle
    /\ FetchIdle
    /\ InsertIdle
    /\ UploadIdle
    /\ MailIdle
    /\ SlackIdle

NextSchema == CreateSchema

SpecSchema == InitSchema /\ [][NextSchema]_vars

\* ---------------------------------------------------------------------
\* Properties of create_bigqueryschema
\* ---------------------------------------------------------------------

\* The row with its fields in the order pi.
Reordered(row, pi) == [i \in 1..Len(row) |-> row[pi[i]]]

\* The row without its i-th field.
Without(row, i) == SubSeq(row, 1, i - 1) \o SubSeq(row, i + 1, Len(row))

\* The kinds the claims call unmapped: neither text, nested structure or
\* sequence, nor whole number.
UnmappedKinds == {"float", "bool", "none"}

\* C8 as stated: the schema returned holds a STRING column for every str,
\* dict, list or tuple field of the row and an INTEGER column for every
\* whole-number field, and every reordering of the row's fields gives the
\* same result.
C8_SchemaOfMappedFields ==
    inferred =>
        /\ \A i \in 1..Len(item) :
             /\ item[i].kind \in {"str", "dict", "list", "tuple"} =>
                  <<item[i].key, "STRING">> \in result.schema
             /\ item[i].kind = "int" => <<item[i].key, "INTEGER">> \in result.schema
        /\ \A pi \in Permutations(1..Len(item)) :
             create_bigqueryschema(Reordered(item, pi)) = result

\* C9 as stated: wherever a field of an unmapped kind stands in the row,
\* the call does not fail, the schema has no column for that field, and
\* the columns are those inferred for the row without it.
C9_UnmappedFieldDropped ==
    inferred =>
        \A i \in 1..Len(item) :
            item[i].kind \in UnmappedKinds =>
                /\ ~result.raised
                /\ \A c \in result.schema : c[1] # item[i].key
                /\ result.schema = create_bigqueryschema(Without(item, i)).schema

\* =====================================================================
\* insert_json, insert_rows, newline_json (bigquery.py 105-118, 135-141,
\* 192-193)
\* =====================================================================

RowValues == {"a", "b"}

\* The row lists passed to an insert.
RowLists == UNION { [1..n -> RowValues] : n \in 0..MaxInsertRows }

\* json.dumps(row): the text of one row, as a sequence of characters.
json_dumps(row) == <<"{", row, "}">>

\* "\n".join(json.dumps(row) for row in response_obj): the empty string
\* for no rows, no separator after the last row.
RECURSIVE newline_json(_)
newline_json(response_obj) ==
    IF Len(response_obj) = 0 THEN <<>>
    ELSE IF Len(response_obj) = 1 THEN json_dumps(response_obj[1])
    ELSE json_dumps(response_obj[1]) \o <<"\n">> \o newline_json(Tail(response_obj))

\* What client.insert_rows_json does: it raises, or it returns the list of
\* per-row errors (empty when every row went in).
Responses ==
    {[exc |-> TRUE, errors |-> <<>>]} \cup
    {[exc |-> FALSE, errors |-> [i \in 1..k |-> i]] : k \in 0..MaxErrors}

\* What a function without a return statement gives its caller: None, a
\* value that carries no error list.
NoneValue == [isNone |-> TRUE, errors |-> <<>>]

LogEntry(level, msg, arg) == [level |-> level, msg |-> msg, arg |-> arg]

\* if len(item) != 0: the guard of insert_json.
HasRows(rows) == Len(rows) # 0

\* The messages insert_json logs around its one insert_rows_json call; the
\* else clause belongs to the try and runs whenever the call did not raise.
InsertJsonLog(rows, resp) ==
    IF resp.exc
    THEN <<LogEntry("ERROR", "Error occured while inserting data", <<>>)>>
    ELSE <<IF resp.errors = <<>>
           THEN LogEntry("INFO", "New rows added.", <<Len(rows)>>)
           ELSE LogEntry("ERROR", "Encounted Error while inserting rows", resp.errors),
           LogEntry("ERROR", "No row added.", <<>>)>>

\* insert_json(table_id, item)
InsertJson ==
    /\ Len(ops) < MaxOps
    /\ \E rows \in RowLists, resp \in Responses :
         IF HasRows(rows)
         THEN /\ apiCalls' = Append(apiCalls, [type |-> "list", n |-> Len(rows), text |-> <<>>])
              /\ ops' = Append(ops, [op |-> "insert_json", rows |-> rows, api |-> 1,
                                      raised |-> FALSE, returned |-> NoneValue,
                                      answered |-> ~resp.exc, reported |-> resp.errors,
                                      log |-> InsertJsonLog(rows, resp)])
         ELSE /\ UNCHANGED apiCalls
              /\ ops' = Append(ops, [op |-> "insert_json", rows |-> rows, api |-> 0,
                                      raised |-> FALSE, returned |-> NoneValue,
                                      answered |-> FALSE, reported |-> <<>>,
                                      log |-> <<>>])
    /\ UNCHANGED notInsert

\* insert_rows(table_id, rows_to_insert): the serialised text goes to
\* insert_rows_json whatever the number of rows; nothing catches what the
\* call raises.
InsertRows ==
    /\ Len(ops) < MaxOps
    /\ \E rows \in RowLists, resp \in Responses :
         LET ndjson == newline_json(rows) IN
         /\ apiCalls' = Append(apiCalls, [type |-> "str", n |-> Len(rows), text |-> ndjson])
         /\ ops' = Append(ops, [op |-> "insert_rows", rows |-> rows, api |-> 1,
                                 raised |-> resp.exc, returned |-> NoneValue,
                                 answered |-> ~resp.exc, reported |-> resp.errors,
                                 log |-> IF resp.exc THEN <<>>
                                         ELSE IF resp.errors = <<>>
                                         THEN <<LogEntry("PRINT", "New rows have been added.", <<>>)>>
                                         ELSE <<LogEntry("PRINT", "Encountered errors while inserting rows",
                                                         resp.errors)>>])
    /\ UNCHANGED notInsert

InitInsert ==
    /\ InsertIdle
    /\ UploadIdle
    /\ MailIdle
    /\ SlackIdle
    /\ tableExists = FALSE
    /\ LoadIdle
    /\ FetchIdle
    /\ SchemaIdle

NextInsert ==
    \/ InsertJson
    \/ InsertRows

SpecInsert == InitInsert /\ [][NextInsert]_vars

\* ---------------------------------------------------------------------
\* Properties of the JSON inserts
\* ---------------------------------------------------------------------

\* C10 as stated: an insert called with zero rows makes no call to the
\* remote insert API, raises nothing and logs no error.
C10_EmptyInsertIsNoOp ==
    \A i \in 1..Len(ops) :
        Len(ops[i].rows) = 0 =>
            /\ ops[i].api = 0
            /\ ~ops[i].raised
            /\ \A k \in 1..Len(ops[i].log) : ops[i].log[k].level # "ERROR"

\* C11 as stated: an insert whose remote call reported row-level errors
\* does not raise and returns a result whose error list is the list the
\* remote reported, so that the returned value of a partial failure differs
\* from that of a success.
C11_ErrorsReturned ==
    \A i \in 1..Len(ops) :
        (ops[i].answered /\ ops[i].reported # <<>>) =>
            /\ ~ops[i].raised
            /\ ~ops[i].returned.isNone
            /\ ops[i].returned.errors = ops[i].reported
            /\ \A j \in 1..Len(ops) :
                 (ops[j].answered /\ ops[j].reported = <<>>) =>
                     ops[j].returned # ops[i].returned

\* =====================================================================
\* upload_to_gcs (bigquery.py 33-63)
\* =====================================================================

\* Text is a sequence of pieces; the host names are two pieces each, so
\* that a name can hold the text of a host.
ApiHost == <<"storage", ".googleapis.com">>

ConsoleHost == <<"storage", ".cloud.google.com">>

NamePieces == {"storage", ".googleapis.com", "x", " "}

Names == UNION { [1..n -> NamePieces] : n \in 1..MaxNameLen }

BucketNames == {<<"b">>, <<"x">>}

\* urllib's quote(name, safe="/~") as blob.public_url applies it: a space
\* becomes %20, the other pieces stay.
RECURSIVE quote(_)
quote(name) ==
    IF Len(name) = 0 THEN <<>>
    ELSE <<IF name[1] = " " THEN "%20" ELSE name[1]>> \o quote(Tail(name))

\* blob.public_url: https://storage.googleapis.com/<bucket>/<quoted name>
public_url(bucket, name) ==
    <<"https://">> \o ApiHost \o <<"/">> \o bucket \o <<"/">> \o quote(name)

\* str.replace(old, new): every occurrence of old, left to right.
RECURSIVE replace(_, _, _)
replace(text, old, new) ==
    IF Len(text) < Len(old) THEN text
    ELSE IF SubSeq(text, 1, Len(old)) = old
         THEN new \o replace(SubSeq(text, Len(old) + 1, Len(text)), old, new)
         ELSE <<text[1]>> \o replace(Tail(text), old, new)

\* if folder_in_bucket: destination_blob_name = f"{folder}/{name}".  None
\* and the empty string are both the empty text here.
BlobName(folder, name) == IF folder # <<>> THEN folder \o <<"/">> \o name ELSE name

\* upload_to_gcs(bucket_name, source_file_path, destination_blob_name,
\* folder_in_bucket): what upload_from_filename raises is not caught.
UploadToGcs ==
    /\ upload.state = "none"
    /\ \E fails \in BOOLEAN :
         LET name == BlobName(folder_in_bucket, destination_blob_name) IN
         IF fails
         THEN /\ upload' = [state |-> "raised", object |-> name, url |-> <<>>]
              /\ UNCHANGED uploaded
         ELSE /\ uploaded' = uploaded \cup {<<bucket_name, name>>}
              /\ upload' = [state |-> "returned", object |-> name,
                            url |-> replace(public_url(bucket_name, name), ApiHost, ConsoleHost)]
    /\ UNCHANGED <<bucket_name, destination_blob_name, folder_in_bucket>>
    /\ UNCHANGED notUpload

InitUpload ==
    /\ bucket_name \in BucketNames
    /\ destination_blob_name \in Names
    /\ folder_in_bucket \in Names \cup {<<>>}
    /\ uploaded = {}
    /\ upload = NoUpload
    /\ tableExists = FALSE
    /\ LoadIdle
    /\ FetchIdle
    /\ SchemaIdle
    /\ InsertIdle
    /\ MailIdle
    /\ SlackIdle

NextUpload == UploadToGcs

SpecUpload == InitUpload /\ [][NextUpload]_vars

\* ---------------------------------------------------------------------
\* Properties of upload_to_gcs
\* ---------------------------------------------------------------------

\* C12 as stated: the URL returned is the uploaded object's public URL
\* with the host storage.googleapis.com replaced by
\* storage.cloud.google.com and every other part (scheme, bucket, quoted
\* object name) as it was; the object uploaded is <folder>/<name> when a
\* folder is given and <name> otherwise.
C12_HostRewritten ==
    upload.state = "returned" =>
        /\ upload.object =
             IF folder_in_bucket # <<>>
             THEN folder_in_bucket \o <<"/">> \o destination_blob_name
             ELSE destination_blob_name
        /\ <<bucket_name, upload.object>> \in uploaded
        /\ upload.url =
             <<"https://">> \o ConsoleHost \o <<"/">> \o bucket_name \o <<"/">>
                 \o quote(upload.object)

\* =====================================================================
\* send_mail, send_mail_with_gcs_attachments (mailer.py 79-153)
\* =====================================================================

\* The text of an exception, str(e): what failed and on which file.
ErrorText(what, file) == <<what, file>>

NoError == <<"", 0>>

\* The first file whose download raises, 0 when none does.
FirstBad(bad) == IF bad = {} THEN 0 ELSE CHOOSE i \in bad : \A j \in bad : i <= j

\* The for loop, had each download been tried whatever the others did.
DownloadsAll(n, bad) == n

\* for filename in filenames: blob.download_to_filename(...): the number
\* of downloads tried; the first one that raises leaves the loop.
Downloads(n, bad) == IF bad = {} THEN n ELSE FirstBad(bad)

\* send_mail(...): the message is built outside the try (lines 100-101),
\* so a failure to read an attachment raises; a failure of the SMTP
\* session is caught and returned (lines 103-109).
send_mail(outcome) ==
    CASE outcome = "sent" ->
           [raised |-> FALSE, success |-> TRUE, error |-> NoError]
      [] outcome = "smtp_error" ->
           [raised |-> FALSE, success |-> FALSE, error |-> ErrorText("smtp", 0)]
      [] outcome = "message_error" ->
           [raised |-> TRUE, success |-> FALSE, error |-> ErrorText("attachment", 0)]

SendOutcomes == {"sent", "smtp_error", "message_error"}

\* send_mail_with_gcs_attachments: the try body (downloads, then
\* send_mail), the except clause that turns whatever was raised into a
\* result, and the finally clause that removes the downloaded files.
SendMailWithGcsAttachments ==
    /\ Len(mails) < MaxMailCalls
    /\ \E n \in 0..MaxFiles, outcome \in SendOutcomes :
       \E bad \in SUBSET (1..n) :
         LET tried == Downloads(n, bad)
             failed == bad # {} /\ tried \in bad
             sent == send_mail(outcome)
         IN  IF failed
             THEN /\ mails' = Append(mails,
                        [files |-> n, bad |-> bad, downloads |-> tried, sends |-> 0,
                         raised |-> FALSE, success |-> FALSE,
                         error |-> ErrorText("download", tried)])
                  /\ UNCHANGED smtp
             ELSE /\ mails' = Append(mails,
                        [files |-> n, bad |-> bad, downloads |-> tried, sends |-> 1,
                         raised |-> FALSE, success |-> sent.success,
                         error |-> sent.error])
                  /\ smtp' = IF sent.raised THEN smtp
                             ELSE Append(smtp, [attachments |-> n, delivered |-> sent.success])
    /\ UNCHANGED notMail

InitMail ==
    /\ MailIdle
    /\ SlackIdle
    /\ tableExists = FALSE
    /\ LoadIdle
    /\ FetchIdle
    /\ SchemaIdle
    /\ InsertIdle
    /\ UploadIdle
    /\ SlackIdle

NextMail == SendMailWithGcsAttachments

SpecMail == InitMail /\ [][NextMail]_vars

\* ---------------------------------------------------------------------
\* Properties of send_mail_with_gcs_attachments
\* ---------------------------------------------------------------------

\* C13: a call in which a download fails does not raise and does not call
\* send_mail (nothing reaches the SMTP server): it tries no download after
\* the first one that fails and returns success = False with the text of
\* that download failure as its error.
C13_Call(i) ==
    mails[i].bad # {} =>
        /\ ~mails[i].raised
        /\ mails[i].sends = 0
        /\ mails[i].downloads = FirstBad(mails[i].bad)
        /\ mails[i].success = FALSE
        /\ mails[i].error = ErrorText("download", FirstBad(mails[i].bad))

C13_DownloadFailure ==
    /\ \A i \in 1..Len(mails) : C13_Call(i)
    /\ Len(smtp) = Cardinality({i \in 1..Len(mails) :
                                   mails[i].bad = {} /\ mails[i].error # ErrorText("attachment", 0)})

C13_Witness ==
    /\ Len(mails) = 2
    /\ mails[1].files = 3 /\ mails[1].bad = {2, 3}
    /\ mails[1].downloads = 2 /\ mails[1].sends = 0
    /\ mails[2].bad = {} /\ mails[2].success
    /\ Len(smtp) = 1

\* =====================================================================
\* Notification.build_payload, format_table, send_to_slack
\* (slack.py 76-157)
\* =====================================================================

\* What data_table can be: None or empty, a list of dicts, a list of lists,
\* a list of anything else.
TableKinds == {"none", "dicts", "lists", "other"}

\* What chat_postMessage can do: answer, raise SlackApiError with the
\* error code of the response, raise anything else.
ApiErrors == {"invalid_auth", "channel_not_found"}

PostOutcomes ==
    {[kind |-> "ok", code |-> ""], [kind |-> "other_error", code |-> ""]} \cup
    {[kind |-> "api_error", code |-> c] : c \in ApiErrors}

\* format_table(data) as build_payload calls it, without headers: a list
\* of dicts takes its headers from the first row; a list of lists keeps
\* headers = None and fails on len(header) for header in headers; any
\* other first row raises ValueError.
format_table(kind) ==
    CASE kind = "dicts" -> "table"
      [] kind = "lists" -> "TypeError"
      [] kind = "other" -> "ValueError"

\* build_payload(data_table): "built", or the exception format_table
\* raised; the table is only formatted when data_table is truthy.
build_payload(kind) ==
    IF kind = "none" THEN "built"
    ELSE IF format_table(kind) = "table" THEN "built" ELSE format_table(kind)

\* The except clause, had it named no exception the client raises.
CaughtNever(outcome) == FALSE

\* except SlackApiError as e
Caught(outcome) == outcome.kind = "api_error"

\* send_to_slack(channel_id, data_table)
SendToSlack ==
    /\ Len(notes) < MaxNotes
    /\ \E kind \in TableKinds, outcome \in PostOutcomes :
         LET built == build_payload(kind) IN
         IF built # "built"
         THEN /\ notes' = Append(notes, [table |-> kind, outcome |-> outcome, posts |-> 0,
                                         raised |-> TRUE, error |-> built, log |-> <<>>])
              /\ UNCHANGED posted
         ELSE /\ posted' = Append(posted, [call |-> Len(notes) + 1, table |-> kind])
              /\ notes' = Append(notes,
                   IF outcome.kind = "ok"
                   THEN [table |-> kind, outcome |-> outcome, posts |-> 1, raised |-> FALSE,
                         error |-> "",
                         log |-> <<LogEntry("INFO", "Message sent successfully! Timestamp: ", <<>>)>>]
                   ELSE IF Caught(outcome)
                   THEN [table |-> kind, outcome |-> outcome, posts |-> 1, raised |-> FALSE,
                         error |-> "",
                         log |-> <<LogEntry("ERROR", "Failed to send message: ", <<outcome.code>>)>>]
                   ELSE [table |-> kind, outcome |-> outcome, posts |-> 1, raised |-> TRUE,
                         error |-> outcome.kind, log |-> <<>>])
    /\ UNCHANGED notSlack

InitSlack ==
    /\ SlackIdle
    /\ tableExists = FALSE
    /\ LoadIdle
    /\ FetchIdle
    /\ SchemaIdle
    /\ InsertIdle
    /\ UploadIdle
    /\ MailIdle

NextSlack == SendToSlack

SpecSlack == InitSlack /\ [][NextSlack]_vars

\* ---------------------------------------------------------------------
\* Properties of send_to_slack
\* ---------------------------------------------------------------------

\* The chat_postMessage calls the client received from call i.
PostsOf(i) == Cardinality({k \in 1..Len(posted) : posted[k].call = i})

\* What a call whose post failed with a Slack API error leaves behind.
ApiErrorHandled(i) ==
    notes[i].outcome.kind = "api_error" =>
        /\ ~notes[i].raised
        /\ notes[i].log =
             <<LogEntry("ERROR", "Failed to send message: ", <<notes[i].outcome.code>>)>>

====
